---- MODULE Spec2Model ----
(***************************************************************************)
(* A model of src/performance-test.js: the PerformanceAnalyzer class that  *)
(* drives one browser per page (analyzePage), runs the four configured     *)
(* pages in a batch (runFullAnalysis), writes the per-page and aggregate   *)
(* reports, and scores the results (calculateOverallScore,                 *)
(* generateRecommendations).                                               *)
(*                                                                         *)
(* Numbers.  A JavaScript number that comes out of a division is kept as   *)
(* a record [kind, num, den]: kind "num" is the rational num/den, kind     *)
(* "nan" is NaN and kind "inf" is Infinity.  Utilization rates are kept in *)
(* hundredths of a percent (the two decimals of toFixed(2)).               *)
(***************************************************************************)
EXTENDS Integers, Sequences, FiniteSets, TLC

VARIABLES
    pc,            \* position of the single flow of control
    idx,           \* index into pages of the page the for-loop is at
    browsers,      \* number of launched browser processes that are not closed
    pending,       \* the error thrown inside analyzePage's try block, if any
    error,         \* the error analyzePage rejected with (catch parameter)
    cur,           \* the locals of the current analyzePage call
    results,       \* runFullAnalysis' results array
    rawFiles,      \* pages whose <pageName>-<millis>.json was written in this run
    summaryFiles,  \* pages whose <pageName>-summary.md was written in this run
    overall,       \* content of overall-summary.json
    exitCode,      \* the process exit code
    attempts,      \* number of analyzePage calls per page
    outcome,       \* per page: "ok" once analyzePage resolved, "failed" once it rejected
    firstFailure,  \* per page: the kind of the first step of its analysis that threw
    loadOf,        \* per page: the loadTime of the result analyzePage resolved with
    jsCoverage,    \* analyzePage's local jsCoverage
    done,          \* the steps of the current analyzePage call that have completed
    scoreIn,       \* scoring harness: the page result being scored
    scoreOut,      \* scoring harness: the score computed for scoreIn
    recsOut,       \* scoring harness: the recommendations computed for scoreIn
    bundleIn,      \* bundle harness: the coverage lists [js, css] handed to analyzeBundleSize
    bundleOut,     \* bundle harness: what analyzeBundleSize returned for bundleIn
    resIn,         \* resource harness: the page's resource-timing buffer
    resOut,        \* resource harness: how getResourceMetrics settled for resIn
    urlIn,         \* classification harness: the URL handed to getResourceType
    typeOut,       \* classification harness: what getResourceType returned for urlIn
    disk,          \* write harness: the state of each report file on disk
    vitalsIn,      \* vitals harness: the page getWebVitals is evaluated in
    vitals,        \* vitals harness: the vitals object of the promise executor
    samplesFired,  \* vitals harness: how many samples the library has reported
    vitalsOut      \* vitals harness: the mapping getWebVitals resolved with

vars == <<pc, idx, browsers, pending, error, cur, results, rawFiles, summaryFiles,
          overall, exitCode, attempts, outcome, firstFailure, loadOf, jsCoverage, done,
          scoreIn, scoreOut, recsOut, bundleIn, bundleOut, resIn, resOut, urlIn, typeOut,
          disk, vitalsIn, vitals, samplesFired, vitalsOut>>

batchVars == <<pc, idx, browsers, pending, error, cur, results, rawFiles, summaryFiles,
               overall, exitCode, attempts, outcome, firstFailure, loadOf, jsCoverage,
               done>>

scoreVars == <<scoreIn, scoreOut, recsOut>>

bundleVars == <<bundleIn, bundleOut>>

resVars == <<resIn, resOut>>

typeVars == <<urlIn, typeOut>>

\* The variables of the harnesses, which no step of the batch changes.
vitalsVars == <<vitalsIn, vitals, samplesFired, vitalsOut>>

harnessVars == <<scoreVars, bundleVars, resVars, typeVars, disk, vitalsVars>>

(***************************************************************************)
(* Bounds of the model.                                                    *)
(***************************************************************************)
\* The resource-timing buffer of a page holds 0..MaxEntries entries.
MaxEntries == 2
\* Scoring inputs are taken within Margin of each threshold of the rules.
Margin == 1
\* The source text of a coverage entry is 0..MaxText characters long.
MaxText == 2
\* The vitals library of a page reports 0..MaxSamples samples.
MaxSamples == 2

(***************************************************************************)
(* Arithmetic of JavaScript numbers.                                       *)
(***************************************************************************)
NaN == [kind |-> "nan", num |-> 0, den |-> 1]

Infinity == [kind |-> "inf", num |-> 0, den |-> 1]

Num(n) == [kind |-> "num", num |-> n, den |-> 1]

\* A division that guards the empty case: 0 instead of NaN when b = 0.
JSDivideGuarded(a, b) ==
    IF b = 0 THEN Num(0) ELSE [kind |-> "num", num |-> a, den |-> b]

\* a / b for non-negative integers a, b: 0/0 is NaN, a/0 is Infinity.
JSDivide(a, b) ==
    IF b = 0 THEN (IF a = 0 THEN NaN ELSE Infinity)
    ELSE [kind |-> "num", num |-> a, den |-> b]

\* Math.floor in the place of Math.round.
MathFloor(x) ==
    IF x.kind = "num" THEN Num(x.num \div x.den) ELSE x

\* Math.round: the nearest integer, halves going up; NaN and Infinity stay.
MathRound(x) ==
    IF x.kind = "num" THEN Num((2 * x.num + x.den) \div (2 * x.den)) ELSE x

\* Math.max(0, n) for an integer n.
MathMax0(n) == IF n > 0 THEN n ELSE 0

\* JSON.stringify of a number: NaN and Infinity are written as null.
JSONNumber(x) ==
    IF x.kind = "num" THEN x ELSE [kind |-> "null", num |-> 0, den |-> 1]

(***************************************************************************)
(* Plain helpers.                                                          *)
(***************************************************************************)
RECURSIVE SumSeq(_)
SumSeq(s) == IF s = <<>> THEN 0 ELSE Head(s) + SumSeq(Tail(s))

(***************************************************************************)
(* The configured pages (runFullAnalysis).                                 *)
(***************************************************************************)
pages == <<"home", "customers", "dashboard", "reports">>

PageIds == 1..Len(pages)

(***************************************************************************)
(* analyzeBundleSize.  A coverage entry is [text |-> length of the source  *)
(* text, ranges |-> sequence of [start, end]].                             *)
(***************************************************************************)
\* A toFixed that cuts the digits after the second decimal instead of rounding.
ToFixed2Truncated(a, b) == (10000 * a) \div b

\* (a / b * 100).toFixed(2) in hundredths, for b > 0: the nearest hundredth,
\* halves away from zero.
ToFixed2(a, b) ==
    IF a >= 0 THEN (20000 * a + b) \div (2 * b)
    ELSE 0 - ((20000 * (0 - a) + b) \div (2 * b))

\* A range length that counts both of its ends.
RangeLenInclusive(range) == range.end - range.start + 1

RangeLen(range) == range.end - range.start

EntryUsed(coverage) == SumSeq([i \in 1..Len(coverage.ranges) |-> RangeLen(coverage.ranges[i])])

EntryText(coverage) == coverage.text

BundleStat(total, used) ==
    [totalSize       |-> total,
     usedSize        |-> used,
     unusedSize      |-> total - used,
     utilizationRate |-> IF total > 0 THEN ToFixed2(used, total) ELSE 0]

analyzeBundleSize(jsCov, cssCov) ==
    [javascript |-> BundleStat(SumSeq([i \in 1..Len(jsCov) |-> EntryText(jsCov[i])]),
                               SumSeq([i \in 1..Len(jsCov) |-> EntryUsed(jsCov[i])])),
     css        |-> BundleStat(SumSeq([i \in 1..Len(cssCov) |-> EntryText(cssCov[i])]),
                               SumSeq([i \in 1..Len(cssCov) |-> EntryUsed(cssCov[i])]))]

(***************************************************************************)
(* getResourceType.  A URL is a sequence of characters; each regular       *)
(* expression of the method is \.(alternatives)$, which matches when the   *)
(* URL ends with a dot followed by one of the alternatives.                *)
(***************************************************************************)
ScriptExts == { <<"j", "s">>, <<"j", "s", "x">>, <<"t", "s">>, <<"t", "s", "x">> }

StyleExts == { <<"c", "s", "s">>, <<"s", "c", "s", "s">>, <<"s", "a", "s", "s">> }

ImageExts ==
    { <<"j", "p", "g">>, <<"j", "p", "e", "g">>, <<"p", "n", "g">>, <<"g", "i", "f">>,
      <<"w", "e", "b", "p">>, <<"a", "v", "i", "f">>, <<"s", "v", "g">> }

FontExts ==
    { <<"w", "o", "f", "f">>, <<"w", "o", "f", "f", "2">>, <<"t", "t", "f">>,
      <<"o", "t", "f">>, <<"e", "o", "t">> }

EndsWith(url, suffix) ==
    /\ Len(url) >= Len(suffix)
    /\ SubSeq(url, Len(url) - Len(suffix) + 1, Len(url)) = suffix

\* A pattern without the $ anchor: the dot and the extension anywhere in the URL.
MatchesAnywhere(url, exts) ==
    \E ext \in exts : \E i \in 1..Len(url) :
        /\ i + Len(ext) <= Len(url)
        /\ SubSeq(url, i, i + Len(ext)) = <<".">> \o ext

\* url.match(/\.(exts)$/)
Matches(url, exts) == \E ext \in exts : EndsWith(url, <<".">> \o ext)

getResourceType(url) ==
    IF Matches(url, ScriptExts) THEN "scripts"
    ELSE IF Matches(url, StyleExts) THEN "stylesheets"
    ELSE IF Matches(url, ImageExts) THEN "images"
    ELSE IF Matches(url, FontExts) THEN "fonts"
    ELSE "other"

(***************************************************************************)
(* getResourceMetrics.  The function handed to page.evaluate runs inside   *)
(* the page, where `this` is the page's global object and not the          *)
(* analyzer: this.getResourceType is undefined there, and the forEach      *)
(* callback throws a TypeError at the first entry, before anything is      *)
(* pushed.  With an empty buffer the callback is never called and the      *)
(* function returns the summary of no entries.                             *)
(***************************************************************************)
Returned(value) == [settled |-> "returned", value |-> value]

Threw == [settled |-> "threw", value |-> <<>>]

NoResources ==
    [totalResources   |-> 0,
     totalSize        |-> 0,
     byType           |-> [scripts |-> <<>>, stylesheets |-> <<>>, images |-> <<>>,
                           fonts |-> <<>>, other |-> <<>>],
     slowestResources |-> <<>>]

getResourceMetrics(resources) ==
    IF Len(resources) > 0 THEN Threw ELSE Returned(NoResources)

(***************************************************************************)
(* getWebVitals: the promise executor evaluated inside the page.  The      *)
(* vitals object maps each name to the set of at most one {value, rating}  *)
(* stored under it.                                                        *)
(***************************************************************************)
LibraryVitals == {"CLS", "FID", "FCP", "LCP", "TTFB"}

VitalNames == LibraryVitals \cup {"DOMContentLoaded", "LoadEvent"}

\* let vitals = {}
EmptyVitals == [name \in VitalNames |-> {}]

\* vitals[name] = { value, rating }
captureVital(v, name, value, rating) ==
    [v EXCEPT ![name] = {[value |-> value, rating |-> rating]}]

FallbackRating(duration, threshold) ==
    IF duration < threshold THEN "good" ELSE "needs-improvement"

\* The fallback measurements, taken only if (navigation).
Fallbacks(v, navigation) ==
    IF navigation = {} THEN v
    ELSE LET nav == CHOOSE n \in navigation : TRUE
         IN  [v EXCEPT !["DOMContentLoaded"] =
                           {[value  |-> nav.domContentLoaded,
                             rating |-> FallbackRating(nav.domContentLoaded, 1500)]},
                       !["LoadEvent"] =
                           {[value  |-> nav.loadEvent,
                             rating |-> FallbackRating(nav.loadEvent, 2500)]}]

(***************************************************************************)
(* Page results.  webVitals is a function from the names of the vitals     *)
(* that were captured to [value |-> v]; a vital that was not captured is   *)
(* not in its domain (result.webVitals.LCP?.value is then undefined, and   *)
(* undefined > n is false).                                                *)
(***************************************************************************)
VitalOver(webVitals, name, limit) ==
    name \in DOMAIN webVitals /\ webVitals[name].value > limit

\* lcp and fid are sets of at most one value: {} when the vital was not captured.
MakeVitals(lcp, fid) ==
    [n \in ((IF lcp = {} THEN {} ELSE {"LCP"}) \cup
            (IF fid = {} THEN {} ELSE {"FID"}))
        |-> [value |-> CHOOSE v \in (IF n = "LCP" THEN lcp ELSE fid) : TRUE]]

MakeResult(name, loadTime, webVitals, totalResources, bundle) ==
    [pageName        |-> name,
     loadTime        |-> loadTime,
     webVitals       |-> webVitals,
     resourceMetrics |-> [totalResources |-> totalResources],
     bundleAnalysis  |-> bundle]

NoVitals == MakeVitals({}, {})

NoBundle == analyzeBundleSize(<<>>, <<>>)

NoResult == MakeResult("", 0, NoVitals, 0, NoBundle)

(***************************************************************************)
(* calculateOverallScore.                                                  *)
(***************************************************************************)
\* The rules with inclusive thresholds (>= and <=) in the place of the strict ones.
RawPageScoreInclusive(result) ==
    100 - (IF result.loadTime >= 3000 THEN 20 ELSE 0)
        - (IF result.loadTime >= 5000 THEN 30 ELSE 0)
        - (IF result.bundleAnalysis.javascript.utilizationRate <= 5000 THEN 15 ELSE 0)
        - (IF result.bundleAnalysis.css.utilizationRate <= 6000 THEN 10 ELSE 0)
        - (IF VitalOver(result.webVitals, "LCP", 2499) THEN 25 ELSE 0)
        - (IF VitalOver(result.webVitals, "FID", 99) THEN 20 ELSE 0)

\* The body of the forEach callback: the page's score before the clamp.
RawPageScore(result) ==
    100 - (IF result.loadTime > 3000 THEN 20 ELSE 0)
        - (IF result.loadTime > 5000 THEN 30 ELSE 0)
        - (IF result.bundleAnalysis.javascript.utilizationRate < 5000 THEN 15 ELSE 0)
        - (IF result.bundleAnalysis.css.utilizationRate < 6000 THEN 10 ELSE 0)
        - (IF VitalOver(result.webVitals, "LCP", 2500) THEN 25 ELSE 0)
        - (IF VitalOver(result.webVitals, "FID", 100) THEN 20 ELSE 0)

\* What the callback adds to totalScore: Math.max(0, pageScore).
PageScore(result) == MathMax0(RawPageScore(result))

calculateOverallScore(rs) ==
    MathRound(JSDivide(SumSeq([i \in 1..Len(rs) |-> PageScore(rs[i])]), Len(rs)))

(***************************************************************************)
(* generateRecommendations.  Each message is kept as a short tag; the      *)
(* returned string is the messages joined by newlines, kept here as the    *)
(* sequence of messages.                                                   *)
(***************************************************************************)
Great == "Great performance"

\* The recommendations without the rule on the number of resources.
generateRecommendationsNoResources(result) ==
    LET recs ==
            (IF result.bundleAnalysis.javascript.utilizationRate < 5000
                THEN <<"JavaScript utilization is low">> ELSE <<>>)
         \o (IF result.bundleAnalysis.css.utilizationRate < 6000
                THEN <<"CSS utilization is low">> ELSE <<>>)
         \o (IF result.loadTime > 3000
                THEN <<"Slow loading time">> ELSE <<>>)
         \o (IF VitalOver(result.webVitals, "LCP", 2500)
                THEN <<"Poor LCP">> ELSE <<>>)
         \o (IF VitalOver(result.webVitals, "FID", 100)
                THEN <<"Poor FID">> ELSE <<>>)
    IN  IF Len(recs) = 0 THEN <<Great>> ELSE recs

generateRecommendations(result) ==
    LET recs ==
            (IF result.bundleAnalysis.javascript.utilizationRate < 5000
                THEN <<"JavaScript utilization is low">> ELSE <<>>)
         \o (IF result.bundleAnalysis.css.utilizationRate < 6000
                THEN <<"CSS utilization is low">> ELSE <<>>)
         \o (IF result.loadTime > 3000
                THEN <<"Slow loading time">> ELSE <<>>)
         \o (IF result.resourceMetrics.totalResources > 100
                THEN <<"Too many resources">> ELSE <<>>)
         \o (IF VitalOver(result.webVitals, "LCP", 2500)
                THEN <<"Poor LCP">> ELSE <<>>)
         \o (IF VitalOver(result.webVitals, "FID", 100)
                THEN <<"Poor FID">> ELSE <<>>)
    IN  IF Len(recs) = 0 THEN <<Great>> ELSE recs

(***************************************************************************)
(* generateOverallSummary: the object that is written, as JSON, to         *)
(* overall-summary.json.                                                   *)
(***************************************************************************)
LoadTimeOf(result) == result.loadTime

\* The summary computed over the configured pages instead of the results.
OverallSummaryAllPages(rs) ==
    [totalPages       |-> Len(pages),
     averageLoadTime  |-> JSONNumber(JSDivide(SumSeq([i \in 1..Len(rs) |-> LoadTimeOf(rs[i])]), Len(pages))),
     performanceScore |-> JSONNumber(calculateOverallScore(rs))]

OverallSummary(rs) ==
    [totalPages       |-> Len(rs),
     averageLoadTime  |-> JSONNumber(JSDivide(SumSeq([i \in 1..Len(rs) |-> LoadTimeOf(rs[i])]), Len(rs))),
     performanceScore |-> JSONNumber(calculateOverallScore(rs))]

(***************************************************************************)
(* What the browser can hand to one page analysis.                         *)
(***************************************************************************)
LoadTimes == {2000, 4000}

VitalsSeen == {MakeVitals({}, {}), MakeVitals({3000}, {})}

JSCoverages ==
    { <<[text |-> 10, ranges |-> <<[start |-> 0, end |-> 4]>>]>>,
      <<[text |-> 6, ranges |-> <<[start |-> 0, end |-> 4]>>],
        [text |-> 4, ranges |-> <<[start |-> 0, end |-> 2], [start |-> 2, end |-> 4]>>]>> }

CSSCoverages ==
    { <<[text |-> 10, ranges |-> <<[start |-> 0, end |-> 7]>>]>> }

(***************************************************************************)
(* analyzePage: the awaited steps of the try block, in program order.      *)
(***************************************************************************)
\* The try block with the results saved before the heap metrics are read.
StepsSaveEarly ==
    <<"newPage", "setCacheEnabled", "setViewport", "startJSCoverage",
      "startCSSCoverage", "goto", "getWebVitals", "getResourceMetrics",
      "stopJSCoverage", "stopCSSCoverage", "saveResults", "generateSummaryReport",
      "getLighthouseMetrics", "return">>

Steps ==
    <<"newPage", "setCacheEnabled", "setViewport", "startJSCoverage",
      "startCSSCoverage", "goto", "getWebVitals", "getResourceMetrics",
      "stopJSCoverage", "stopCSSCoverage", "getLighthouseMetrics",
      "saveResults", "generateSummaryReport", "return">>

StepAfter(step) == Steps[(CHOOSE i \in 1..Len(Steps) : Steps[i] = step) + 1]

\* The steps that only configure the page and yield no data.
SetupSteps ==
    {"newPage", "setCacheEnabled", "setViewport", "startJSCoverage", "startCSSCoverage"}

\* The steps of the five telemetry phases: navigation, vitals, resources,
\* coverage (its two stops) and heap metrics.
TelemetrySteps ==
    {"goto", "getWebVitals", "getResourceMetrics", "stopJSCoverage",
     "stopCSSCoverage", "getLighthouseMetrics"}

\* The two file writes of saveResults.
PersistSteps == {"saveResults", "generateSummaryReport"}

StepKind(step) ==
    IF step \in SetupSteps THEN "setup"
    ELSE IF step \in TelemetrySteps THEN "telemetry"
    ELSE "persist"

\* A step of the try block throws: control goes to the finally block.
Throw(step) ==
    /\ pending' = step
    /\ UNCHANGED done
    /\ firstFailure' = [firstFailure EXCEPT ![idx] = StepKind(step)]
    /\ pc' = "finally"

\* A step of the try block completes: control goes to the next step.
Proceed(step) ==
    /\ pc' = StepAfter(step)
    /\ done' = Append(done, step)
    /\ UNCHANGED <<pending, firstFailure>>

\* The variables no step of analyzePage's try block changes.
outside == <<idx, browsers, error, results, overall, exitCode, attempts, outcome, loadOf,
             harnessVars>>

(***************************************************************************)
(* runFullAnalysis: the head of the for-loop calls analyzePage.            *)
(***************************************************************************)
StartPage ==
    /\ pc = "loop"
    /\ idx <= Len(pages)
    /\ attempts' = [attempts EXCEPT ![idx] = @ + 1]
    /\ cur' = MakeResult(pages[idx], 0, NoVitals, 0, NoBundle)
    /\ pc' = "launch"
    /\ UNCHANGED <<idx, browsers, pending, error, results, rawFiles, summaryFiles,
                   overall, exitCode, outcome, firstFailure, loadOf, jsCoverage, done,
                   harnessVars>>

\* puppeteer.launch, before the try block: a failure rejects analyzePage at once.
Launch ==
    /\ pc = "launch"
    /\ \/ /\ browsers' = browsers + 1
          /\ pc' = "newPage"
          /\ UNCHANGED <<error, outcome, firstFailure>>
       \/ /\ error' = "launch"
          /\ outcome' = [outcome EXCEPT ![idx] = "failed"]
          /\ firstFailure' = [firstFailure EXCEPT ![idx] = "launch"]
          /\ pc' = "catch"
          /\ UNCHANGED browsers
    /\ UNCHANGED <<idx, pending, cur, results, rawFiles, summaryFiles, overall, exitCode,
                   attempts, loadOf, jsCoverage, done, harnessVars>>

Setup ==
    /\ pc \in SetupSteps
    /\ Proceed(pc) \/ Throw(pc)
    /\ UNCHANGED <<outside, cur, jsCoverage, rawFiles, summaryFiles>>

\* page.goto and the load time measured around it.
Goto ==
    /\ pc = "goto"
    /\ \/ \E loadTime \in LoadTimes :
            /\ cur' = [cur EXCEPT !.loadTime = loadTime]
            /\ Proceed("goto")
       \/ /\ Throw("goto")
          /\ UNCHANGED cur
    /\ UNCHANGED <<outside, jsCoverage, rawFiles, summaryFiles>>

GetWebVitals ==
    /\ pc = "getWebVitals"
    /\ \/ \E webVitals \in VitalsSeen :
            /\ cur' = [cur EXCEPT !.webVitals = webVitals]
            /\ Proceed("getWebVitals")
       \/ /\ Throw("getWebVitals")
          /\ UNCHANGED cur
    /\ UNCHANGED <<outside, jsCoverage, rawFiles, summaryFiles>>

\* getResourceMetrics.  The callback runs inside the page, where `this` is not
\* the analyzer: this.getResourceType is not a function there, so the forEach
\* callback throws on the first entry.  With no entry it is never called.
GetResourceMetrics ==
    /\ pc = "getResourceMetrics"
    /\ \E n \in 0..MaxEntries :
         \/ /\ n = 0
            /\ cur' = [cur EXCEPT !.resourceMetrics = [totalResources |-> n]]
            /\ Proceed("getResourceMetrics")
         \/ /\ Throw("getResourceMetrics")
            /\ UNCHANGED cur
    /\ UNCHANGED <<outside, jsCoverage, rawFiles, summaryFiles>>

StopJSCoverage ==
    /\ pc = "stopJSCoverage"
    /\ \/ \E js \in JSCoverages :
            /\ jsCoverage' = js
            /\ Proceed("stopJSCoverage")
       \/ /\ Throw("stopJSCoverage")
          /\ UNCHANGED jsCoverage
    /\ UNCHANGED <<outside, cur, rawFiles, summaryFiles>>

\* stopCSSCoverage, then the synchronous analyzeBundleSize.
StopCSSCoverage ==
    /\ pc = "stopCSSCoverage"
    /\ \/ \E css \in CSSCoverages :
            /\ cur' = [cur EXCEPT !.bundleAnalysis = analyzeBundleSize(jsCoverage, css)]
            /\ Proceed("stopCSSCoverage")
       \/ /\ Throw("stopCSSCoverage")
          /\ UNCHANGED cur
    /\ UNCHANGED <<outside, jsCoverage, rawFiles, summaryFiles>>

\* getLighthouseMetrics: page.metrics().
GetLighthouseMetrics ==
    /\ pc = "getLighthouseMetrics"
    /\ Proceed(pc) \/ Throw(pc)
    /\ UNCHANGED <<outside, cur, jsCoverage, rawFiles, summaryFiles>>

\* saveResults: the writeFileSync of the raw JSON file.
SaveResults ==
    /\ pc = "saveResults"
    /\ \/ /\ rawFiles' = rawFiles \cup {idx}
          /\ Proceed("saveResults")
       \/ /\ Throw("saveResults")
          /\ UNCHANGED rawFiles
    /\ UNCHANGED <<outside, cur, jsCoverage, summaryFiles>>

\* generateSummaryReport, called at the end of saveResults: the writeFileSync
\* of the summary file.
GenerateSummaryReport ==
    /\ pc = "generateSummaryReport"
    /\ \/ /\ summaryFiles' = summaryFiles \cup {idx}
          /\ Proceed("generateSummaryReport")
       \/ /\ Throw("generateSummaryReport")
          /\ UNCHANGED summaryFiles
    /\ UNCHANGED <<outside, cur, jsCoverage, rawFiles>>

\* return results: the try block completes, control goes to the finally block.
Return ==
    /\ pc = "return"
    /\ pc' = "finally"
    /\ UNCHANGED <<outside, pending, firstFailure, cur, jsCoverage, done, rawFiles,
                   summaryFiles>>

\* A cleanup that runs on the success path only (no finally block).
CloseOnSuccessOnly ==
    browsers' = IF pending = "none" THEN browsers - 1 ELSE browsers

\* A close() that is started but not awaited: the process is still there when
\* analyzePage settles.
CloseNotAwaited ==
    browsers' = browsers

\* finally { await browser.close() }.  close() ends the browser process, also
\* when it rejects (the connection to the process is then already lost).
CloseBrowser ==
    browsers' = browsers - 1

\* analyzePage settles after the finally block: it resolves with the result when
\* nothing threw, rejects with the try block's error when close() completed, and
\* rejects with close()'s own error when close() threw.
Finally ==
    /\ pc = "finally"
    /\ CloseBrowser
    /\ \/ /\ pending = "none"
          /\ outcome' = [outcome EXCEPT ![idx] = "ok"]
          /\ loadOf' = [loadOf EXCEPT ![idx] = cur.loadTime]
          /\ pc' = "push"
          /\ UNCHANGED error
       \/ /\ pending # "none"
          /\ error' = pending
          /\ outcome' = [outcome EXCEPT ![idx] = "failed"]
          /\ pc' = "catch"
          /\ UNCHANGED loadOf
       \/ /\ error' = "close"
          /\ outcome' = [outcome EXCEPT ![idx] = "failed"]
          /\ pc' = "catch"
          /\ UNCHANGED loadOf
    /\ UNCHANGED <<idx, pending, cur, results, rawFiles, summaryFiles, overall,
                   exitCode, attempts, firstFailure, jsCoverage, done, harnessVars>>

\* The locals of an analyzePage call are gone once it has settled.
DropLocals ==
    /\ cur' = NoResult
    /\ jsCoverage' = <<>>
    /\ pending' = "none"
    /\ done' = <<>>

\* analyzePage resolved: results.push(result), and on to the next page.
Push ==
    /\ pc = "push"
    /\ results' = Append(results, cur)
    /\ idx' = idx + 1
    /\ pc' = "loop"
    /\ DropLocals
    /\ UNCHANGED <<browsers, error, rawFiles, summaryFiles, overall, exitCode,
                   attempts, outcome, firstFailure, loadOf, harnessVars>>

\* A catch block that logs the error and rethrows it: the batch ends there.
CatchRethrow ==
    /\ pc = "catch"
    /\ pc' = "rejected"
    /\ error' = "none"
    /\ DropLocals
    /\ UNCHANGED <<idx, browsers, results, rawFiles, summaryFiles, overall, exitCode,
                   attempts, outcome, firstFailure, loadOf, harnessVars>>

\* analyzePage rejected: the catch block logs the error, and on to the next page.
Catch ==
    /\ pc = "catch"
    /\ idx' = idx + 1
    /\ pc' = "loop"
    /\ error' = "none"
    /\ DropLocals
    /\ UNCHANGED <<browsers, results, rawFiles, summaryFiles, overall, exitCode,
                   attempts, outcome, firstFailure, loadOf, harnessVars>>

\* After the loop: generateOverallSummary(results) and its writeFileSync,
\* outside any try block.
GenerateOverallSummary ==
    /\ pc = "loop"
    /\ idx > Len(pages)
    /\ \/ /\ overall' = {OverallSummary(results)}
          /\ pc' = "resolved"
       \/ /\ pc' = "rejected"
          /\ UNCHANGED overall
    /\ UNCHANGED <<idx, browsers, pending, error, cur, results, rawFiles, summaryFiles,
                   exitCode, attempts, outcome, firstFailure, loadOf, jsCoverage, done,
                   harnessVars>>

\* An entry point that also exits with 1 when some page failed.
ExitNonZeroOnPageFailure ==
    /\ pc \in {"resolved", "rejected"}
    /\ exitCode' = {IF pc = "resolved" /\ \A p \in PageIds : outcome[p] = "ok" THEN 0 ELSE 1}
    /\ pc' = "exited"
    /\ UNCHANGED <<idx, browsers, pending, error, cur, results, rawFiles, summaryFiles,
                   overall, attempts, outcome, firstFailure, loadOf, jsCoverage, done,
                   harnessVars>>

\* The CLI entry point: .then(() => process.exit(0)).catch(... process.exit(1)).
Exit ==
    /\ pc \in {"resolved", "rejected"}
    /\ exitCode' = {IF pc = "resolved" THEN 0 ELSE 1}
    /\ pc' = "exited"
    /\ UNCHANGED <<idx, browsers, pending, error, cur, results, rawFiles, summaryFiles,
                   overall, attempts, outcome, firstFailure, loadOf, jsCoverage, done,
                   harnessVars>>

\* The state of a fresh analyzer before runFullAnalysis is called.
Fresh ==
    /\ idx = 1
    /\ browsers = 0
    /\ pending = "none"
    /\ error = "none"
    /\ cur = NoResult
    /\ results = <<>>
    /\ rawFiles = {}
    /\ summaryFiles = {}
    /\ overall = {}
    /\ exitCode = {}
    /\ attempts = [p \in PageIds |-> 0]
    /\ outcome = [p \in PageIds |-> "none"]
    /\ firstFailure = [p \in PageIds |-> "none"]
    /\ loadOf = [p \in PageIds |-> 0]
    /\ jsCoverage = <<>>
    /\ done = <<>>

\* The harnesses at rest.
ScoreIdle == scoreIn = NoResult /\ scoreOut = {} /\ recsOut = <<>>

BundleIdle == bundleIn = <<>> /\ bundleOut = {}

ResIdle == resIn = <<>> /\ resOut = {}

TypeIdle == urlIn = <<>> /\ typeOut = {}

DiskIdle == disk = <<>>

VitalsIdle == vitalsIn = <<>> /\ vitals = <<>> /\ samplesFired = 0 /\ vitalsOut = {}

Init ==
    /\ pc = "loop"
    /\ Fresh
    /\ ScoreIdle
    /\ BundleIdle
    /\ ResIdle
    /\ TypeIdle
    /\ DiskIdle
    /\ VitalsIdle

Next ==
    \/ StartPage
    \/ Launch
    \/ Setup
    \/ Goto
    \/ GetWebVitals
    \/ GetResourceMetrics
    \/ StopJSCoverage
    \/ StopCSSCoverage
    \/ GetLighthouseMetrics
    \/ SaveResults
    \/ GenerateSummaryReport
    \/ Return
    \/ Finally
    \/ Push
    \/ Catch
    \/ GenerateOverallSummary
    \/ Exit

Spec == Init /\ [][Next]_vars

(***************************************************************************)
(* The batch with a browser that may stop responding.  page.goto is given  *)
(* timeout: 30000 and puppeteer.launch has its own start-up timeout: both  *)
(* reject when the browser does not answer.  No other await of analyzePage *)
(* is given a timeout or raced against a timer: when the browser never     *)
(* answers, the promise never settles and the flow of control stays there. *)
(***************************************************************************)
\* The awaits of analyzePage that nothing bounds.
UnboundedWaits ==
    (SetupSteps \cup TelemetrySteps \cup {"finally"}) \ {"goto"}

\* The browser stops responding during an unbounded await.
Hang ==
    /\ pc \in UnboundedWaits
    /\ pc' = "hung"
    /\ UNCHANGED <<idx, browsers, pending, error, cur, results, rawFiles, summaryFiles,
                   overall, exitCode, attempts, outcome, firstFailure, loadOf, jsCoverage,
                   done, harnessVars>>

NextHang ==
    \/ Next
    \/ Hang

SpecHang == Init /\ [][NextHang]_vars

(***************************************************************************)
(* The scoring harness: one page result, drawn from ScoreInputs, is scored *)
(* by the forEach callback of calculateOverallScore and handed to          *)
(* generateRecommendations.                                                *)
(***************************************************************************)
Near(t) == (t - Margin)..(t + Margin)

\* A bundle statistic whose utilizationRate is rate hundredths of a percent.
RateStat(rate) == BundleStat(10000, rate)

OptionalNear(t) == {{}} \cup {{v} : v \in Near(t)}

NearInputs ==
    { MakeResult("page", loadTime, MakeVitals(lcp, fid), n,
                 [javascript |-> RateStat(js), css |-> RateStat(css)]) :
        loadTime \in Near(3000) \cup Near(5000),
        lcp \in OptionalNear(2500), fid \in OptionalNear(100),
        n \in Near(100), js \in Near(5000), css \in Near(6000) }

\* loadTime 4000, JavaScript 40%, CSS 70%, no LCP, no FID.
ExampleA ==
    MakeResult("page", 4000, MakeVitals({}, {}), 0,
               [javascript |-> RateStat(4000), css |-> RateStat(7000)])

\* loadTime 6000, JavaScript 80%, CSS 80%, LCP 3000, FID 150.
ExampleB ==
    MakeResult("page", 6000, MakeVitals({3000}, {150}), 0,
               [javascript |-> RateStat(8000), css |-> RateStat(8000)])

ScoreInputs == NearInputs \cup {ExampleA, ExampleB}

ScorePage ==
    /\ pc = "harness"
    /\ scoreOut = {}
    /\ scoreOut' = {PageScore(scoreIn)}
    /\ UNCHANGED <<batchVars, scoreIn, recsOut, bundleVars, resVars, typeVars, disk,
                   vitalsVars>>

Recommend ==
    /\ pc = "harness"
    /\ recsOut = <<>>
    /\ recsOut' = generateRecommendations(scoreIn)
    /\ UNCHANGED <<batchVars, scoreIn, scoreOut, bundleVars, resVars, typeVars, disk,
                   vitalsVars>>

InitScore ==
    /\ pc = "harness"
    /\ Fresh
    /\ scoreIn \in ScoreInputs
    /\ scoreOut = {}
    /\ recsOut = <<>>
    /\ BundleIdle
    /\ ResIdle
    /\ TypeIdle
    /\ DiskIdle
    /\ VitalsIdle

NextScore ==
    \/ ScorePage
    \/ Recommend

SpecScore == InitScore /\ [][NextScore]_vars

(***************************************************************************)
(* The bundle harness: analyzeBundleSize is applied to coverage lists      *)
(* drawn from BundleInputs.  The lists are any arrays a caller can pass:   *)
(* the method checks nothing, so ranges that overlap or reach past the end *)
(* of the text are among them, next to the disjoint in-text ranges that    *)
(* Puppeteer reports.                                                      *)
(***************************************************************************)
\* The ranges [start, end) over the offsets 0..MaxText + 1.
CoverageRanges ==
    { r \in [start : 0..MaxText, end : 1..(MaxText + 1)] : r.start < r.end }

RangeLists ==
    {<<>>} \cup { <<r>> : r \in CoverageRanges }
           \cup { <<r1, r2>> : r1 \in CoverageRanges, r2 \in CoverageRanges }

CoverageEntries == { [text |-> t, ranges |-> rs] : t \in 0..MaxText, rs \in RangeLists }

\* A few entries to stand second in a list and on the other side.
ProbeEntries ==
    { [text |-> 0, ranges |-> <<>>],
      [text |-> 1, ranges |-> <<[start |-> 0, end |-> 1]>>],
      [text |-> 2, ranges |-> <<[start |-> 1, end |-> 2]>>] }

CoverageLists ==
    {<<>>} \cup { <<e>> : e \in CoverageEntries }
           \cup { <<e, f>> : e \in CoverageEntries, f \in ProbeEntries }

ProbeLists == {<<>>} \cup { <<f>> : f \in ProbeEntries }

BundleInputs ==
    { [js |-> a, css |-> b] : a \in CoverageLists, b \in ProbeLists } \cup
    { [js |-> a, css |-> b] : a \in ProbeLists, b \in CoverageLists }

AnalyzeBundle ==
    /\ pc = "harness"
    /\ bundleOut = {}
    /\ bundleOut' = {analyzeBundleSize(bundleIn.js, bundleIn.css)}
    /\ UNCHANGED <<batchVars, scoreVars, bundleIn, resVars, typeVars, disk,
                   vitalsVars>>

InitBundle ==
    /\ pc = "harness"
    /\ Fresh
    /\ bundleIn \in BundleInputs
    /\ bundleOut = {}
    /\ ScoreIdle
    /\ ResIdle
    /\ TypeIdle
    /\ DiskIdle
    /\ VitalsIdle

NextBundle == AnalyzeBundle

SpecBundle == InitBundle /\ [][NextBundle]_vars

(***************************************************************************)
(* The classification harness: getResourceType is called, on the analyzer, *)
(* with a URL drawn from UrlInputs.                                        *)
(***************************************************************************)
UrlStems == { <<>>, <<"a">>, <<"a", ".", "m">>, <<"a", ".", "c", "s", "s">>, <<"a", "/">> }

\* Extensions no pattern names: other letters, other case, a prefix of a
\* recognized extension and a recognized extension with one more letter.
OtherExts ==
    { <<"h", "t", "m", "l">>, <<"J", "S">>, <<"j">>, <<"c", "s", "s", "x">>,
      <<"w", "o", "f", "f", "3">>, <<>> }

UrlTails == { <<>>, <<"?", "v">>, <<"#", "x">>, <<"/">>, <<".">> }

UrlInputs ==
    { stem \o <<".">> \o ext \o tail :
        stem \in UrlStems,
        ext \in ScriptExts \cup StyleExts \cup ImageExts \cup FontExts \cup OtherExts,
        tail \in UrlTails } \cup
    { stem \o ext : stem \in UrlStems, ext \in ScriptExts \cup FontExts }

Classify ==
    /\ pc = "harness"
    /\ typeOut = {}
    /\ typeOut' = {getResourceType(urlIn)}
    /\ UNCHANGED <<batchVars, scoreVars, bundleVars, resVars, urlIn, disk,
                   vitalsVars>>

InitType ==
    /\ pc = "harness"
    /\ Fresh
    /\ urlIn \in UrlInputs
    /\ typeOut = {}
    /\ ScoreIdle
    /\ BundleIdle
    /\ ResIdle
    /\ DiskIdle
    /\ VitalsIdle

NextType == Classify

SpecType == InitType /\ [][NextType]_vars

(***************************************************************************)
(* The resource harness: getResourceMetrics is called for a page whose     *)
(* resource-timing buffer is drawn from ResourceBuffers.                   *)
(***************************************************************************)
ResourceNames ==
    { <<"a", ".", "j", "s">>, <<"a", ".", "c", "s", "s">>, <<"a">> }

ResourceEntries ==
    [name : ResourceNames, transferSize : {0, 5}, encodedBodySize : {0, 7},
     duration : {1, 2}]

RECURSIVE SeqsUpTo(_, _)
SeqsUpTo(S, n) ==
    IF n = 0 THEN {<<>>}
    ELSE LET shorter == SeqsUpTo(S, n - 1)
         IN  shorter \cup { Append(q, x) : q \in shorter, x \in S }

ResourceBuffers == SeqsUpTo(ResourceEntries, MaxEntries)

CollectResources ==
    /\ pc = "harness"
    /\ resOut = {}
    /\ resOut' = {getResourceMetrics(resIn)}
    /\ UNCHANGED <<batchVars, scoreVars, bundleVars, resIn, typeVars, disk,
                   vitalsVars>>

InitResources ==
    /\ pc = "harness"
    /\ Fresh
    /\ resIn \in ResourceBuffers
    /\ resOut = {}
    /\ ScoreIdle
    /\ BundleIdle
    /\ TypeIdle
    /\ DiskIdle
    /\ VitalsIdle

NextResources == CollectResources

SpecResources == InitResources /\ [][NextResources]_vars

(***************************************************************************)
(* The write harness: the three fs.writeFileSync calls of a batch in which *)
(* every page reaches saveResults, with the files as they are on disk.     *)
(* writeFileSync(path, data) opens path with flag 'w', which creates the   *)
(* file or truncates it in place, then writes data into it and closes it;  *)
(* it throws when the open fails (the file is then untouched) or when a    *)
(* write fails after the open (what was written so far stays on disk).     *)
(* A file is "absent", "old" (complete, from an earlier run), "partial"    *)
(* (truncated and not yet completely written) or "new" (complete, from     *)
(* this run).                                                              *)
(***************************************************************************)
FileKinds == {"raw", "summary", "overall"}

\* The file a write site writes while the loop is at page p.
FileOf(kind, p) == IF kind = "overall" THEN <<"overall", 0>> ELSE <<kind, p>>

Files == { FileOf(kind, p) : kind \in FileKinds, p \in PageIds }

OpenAt == [raw |-> "open raw", summary |-> "open summary", overall |-> "open overall"]

WriteAt == [raw |-> "write raw", summary |-> "write summary", overall |-> "write overall"]

\* Where control goes when the loop moves on from page p.
NextPageAt(p) == IF p < Len(pages) THEN OpenAt["raw"] ELSE OpenAt["overall"]

\* A writeFileSync returned: saveResults goes on to generateSummaryReport,
\* after the summary the loop takes the next page, after the aggregate the
\* batch is over.
AfterWrite(kind) ==
    /\ pc' = CASE kind = "raw" -> OpenAt["summary"]
                [] kind = "summary" -> NextPageAt(idx)
                [] kind = "overall" -> "written"
    /\ idx' = IF kind = "summary" THEN idx + 1 ELSE idx

\* A writeFileSync threw: inside analyzePage the error is caught by the loop,
\* which takes the next page; the aggregate write is outside any try block.
AfterWriteError(kind) ==
    /\ pc' = IF kind = "overall" THEN "aborted" ELSE NextPageAt(idx)
    /\ idx' = IF kind = "overall" THEN idx ELSE idx + 1

\* The variables of the batch the writes leave alone.
notWritten == <<browsers, pending, error, cur, results, rawFiles, summaryFiles, overall,
                exitCode, attempts, outcome, firstFailure, loadOf, jsCoverage, done,
                scoreVars, bundleVars, resVars, typeVars, vitalsVars>>

\* writeFileSync, first half: open(path, 'w').
OpenFile ==
    \E kind \in FileKinds :
        /\ pc = OpenAt[kind]
        /\ \/ /\ disk' = [disk EXCEPT ![FileOf(kind, idx)] = "partial"]
              /\ pc' = WriteAt[kind]
              /\ UNCHANGED idx
           \/ /\ AfterWriteError(kind)
              /\ UNCHANGED disk
        /\ UNCHANGED notWritten

\* writeFileSync, second half: the data is written and the file closed.
WriteFile ==
    \E kind \in FileKinds :
        /\ pc = WriteAt[kind]
        /\ \/ /\ disk' = [disk EXCEPT ![FileOf(kind, idx)] = "new"]
              /\ AfterWrite(kind)
           \/ /\ AfterWriteError(kind)
              /\ UNCHANGED disk
        /\ UNCHANGED notWritten

\* The raw file is named after the current time and is new in every run; the
\* summary and aggregate files keep their names from run to run.
InitWrite ==
    /\ pc = OpenAt["raw"]
    /\ Fresh
    /\ disk \in [Files -> {"absent", "old"}]
    /\ \A p \in PageIds : disk[FileOf("raw", p)] = "absent"
    /\ ScoreIdle
    /\ BundleIdle
    /\ ResIdle
    /\ TypeIdle
    /\ VitalsIdle

NextWrite ==
    \/ OpenFile
    \/ WriteFile

SpecWrite == InitWrite /\ [][NextWrite]_vars

(***************************************************************************)
(* The vitals harness: getWebVitals is evaluated in a page drawn from      *)
(* VitalsPages.  A page says whether the vitals library is loaded          *)
(* (typeof getCLS !== 'undefined'), holds the navigation-timing entry of   *)
(* the navigation page.goto has completed, with its two durations, and     *)
(* lists in order of time the samples its library has to report, each      *)
(* before (late = FALSE) or after (late = TRUE) the 1000 ms timer.         *)
(***************************************************************************)
VitalSamples == [name : {"LCP", "FID"}, value : {1, 2}, rating : {"good"}, late : BOOLEAN]

\* The samples in order of time: none that is late comes before one that is not.
InTimeOrder(samples) ==
    \A i, j \in 1..Len(samples) : (i < j /\ samples[i].late) => samples[j].late

VitalsPages ==
    { [library |-> lib, navigation |-> {[domContentLoaded |-> dcl, loadEvent |-> load]},
       samples |-> samples] :
        lib \in BOOLEAN, dcl \in Near(1500), load \in Near(2500),
        samples \in { q \in SeqsUpTo(VitalSamples, MaxSamples) : InTimeOrder(q) } }

\* The variables of the batch and of the other harnesses.
notVitals == <<idx, browsers, pending, error, cur, results, rawFiles, summaryFiles, overall,
               exitCode, attempts, outcome, firstFailure, loadOf, jsCoverage, done,
               scoreVars, bundleVars, resVars, typeVars, disk>>

\* The promise executor: the callbacks are registered when the library is
\* there, the fallback measurements are stored, and the timer is set.
EvaluateVitals ==
    /\ pc = "evaluate"
    /\ vitals' = Fallbacks(EmptyVitals, vitalsIn.navigation)
    /\ pc' = "window"
    /\ UNCHANGED <<notVitals, vitalsIn, samplesFired, vitalsOut>>

\* A callback that also changes the mapping already handed out.
VitalCallbackShared ==
    /\ vitalsIn.library
    /\ samplesFired < Len(vitalsIn.samples)
    /\ LET sample == vitalsIn.samples[samplesFired + 1]
       IN  /\ pc = IF sample.late THEN "settled" ELSE "window"
           /\ vitals' = captureVital(vitals, sample.name, sample.value, sample.rating)
           /\ vitalsOut' = IF vitalsOut = {} THEN {} ELSE {vitals'}
    /\ samplesFired' = samplesFired + 1
    /\ UNCHANGED <<pc, notVitals, vitalsIn>>

\* The library reports its next sample: the registered callback calls
\* captureVital.  Without the library no callback was registered.
VitalCallback ==
    /\ vitalsIn.library
    /\ samplesFired < Len(vitalsIn.samples)
    /\ LET sample == vitalsIn.samples[samplesFired + 1]
       IN  /\ pc = IF sample.late THEN "settled" ELSE "window"
           /\ vitals' = captureVital(vitals, sample.name, sample.value, sample.rating)
    /\ samplesFired' = samplesFired + 1
    /\ UNCHANGED <<pc, notVitals, vitalsIn, vitalsOut>>

\* setTimeout(() => resolve(vitals), 1000): the timer fires once the samples
\* that come before it have been reported; page.evaluate returns a copy of the
\* object as it is then.
SettleVitals ==
    /\ pc = "window"
    /\ vitalsIn.library =>
          \A i \in (samplesFired + 1)..Len(vitalsIn.samples) : vitalsIn.samples[i].late
    /\ vitalsOut' = {vitals}
    /\ pc' = "settled"
    /\ UNCHANGED <<notVitals, vitalsIn, vitals, samplesFired>>

InitVitals ==
    /\ pc = "evaluate"
    /\ Fresh
    /\ vitalsIn \in VitalsPages
    /\ vitals = <<>>
    /\ samplesFired = 0
    /\ vitalsOut = {}
    /\ ScoreIdle
    /\ BundleIdle
    /\ ResIdle
    /\ TypeIdle
    /\ DiskIdle

NextVitals ==
    \/ EvaluateVitals
    \/ VitalCallback
    \/ SettleVitals

SpecVitals == InitVitals /\ [][NextVitals]_vars

(***************************************************************************)
(* Properties.                                                             *)
(***************************************************************************)
InResults(p) == \E i \in 1..Len(results) : results[i].pageName = pages[p]

OkPages == {p \in PageIds : outcome[p] = "ok"}

\* The batch has left the for-loop.
LoopOver == pc \in {"resolved", "rejected", "exited"}

\* C1: whenever analyzePage has settled after a successful launch, whichever
\* step of its try block failed, the browser it launched has been closed: at
\* most one browser is ever open, and none is open outside an analyzePage call.
C1_BrowserClosedOnEveryExit ==
    /\ browsers \in {0, 1}
    /\ pc \in {"loop", "push", "catch", "resolved", "rejected", "exited"} => browsers = 0

\* A page whose vitals capture threw after a successful launch has settled.
C1_Witness ==
    /\ pc = "catch"
    /\ error = "getWebVitals"
    /\ browsers = 0

\* C2: every configured page is attempted exactly once, in order, whatever the
\* earlier pages did; a page whose analysis failed is not in the results list;
\* and the batch leaves the loop only after the last page.
C2_FailuresCaughtBatchContinues ==
    /\ \A p \in PageIds :
         attempts[p] = IF p < idx \/ (p = idx /\ pc # "loop") THEN 1 ELSE 0
    /\ \A p \in PageIds : outcome[p] = "failed" => ~ InResults(p)
    /\ LoopOver => idx = Len(pages) + 1
    /\ pc = "catch" => exitCode = {} /\ overall = {}

\* A launch failure and a telemetry failure were followed by a successful page.
C2_Witness ==
    /\ pc = "exited"
    /\ firstFailure[1] = "launch" /\ outcome[1] = "failed"
    /\ firstFailure[2] = "telemetry" /\ outcome[2] = "failed"
    /\ outcome[3] = "ok" /\ InResults(3)
    /\ attempts = [p \in PageIds |-> 1]

\* C3: a failure to write a page's raw JSON file or summary file ends the batch:
\* no later page is analyzed and the process exits with a non-zero code; a
\* failure to write the aggregate file exits with a non-zero code as well.
C3_PersistenceFailureAbortsBatch ==
    /\ \A p \in PageIds :
         firstFailure[p] = "persist" =>
            /\ \A q \in PageIds : q > p => attempts[q] = 0
            /\ pc = "exited" => exitCode = {1}
    /\ pc = "exited" /\ overall = {} => exitCode = {1}

\* C4: a page's files are written only after its five telemetry phases have
\* completed; a page one of whose phases threw has no file written in this run
\* and is not in the results list.
C4_PersistedOnlyAfterAllPhases ==
    /\ \A p \in PageIds :
         firstFailure[p] \in {"launch", "setup", "telemetry"} =>
            /\ p \notin rawFiles
            /\ p \notin summaryFiles
            /\ ~ InResults(p)
    /\ \A p \in rawFiles \cup summaryFiles :
         /\ p <= idx
         /\ p = idx => pc \in {"generateSummaryReport", "return", "finally", "push", "catch"}

\* The first page failed in a telemetry phase, the second page was saved.
C4_Witness ==
    /\ pc = "exited"
    /\ firstFailure[1] = "telemetry"
    /\ outcome[2] = "ok"
    /\ 2 \in rawFiles /\ 2 \in summaryFiles
    /\ 1 \notin rawFiles

OkLoadSum == SumSeq([p \in PageIds |-> IF outcome[p] = "ok" THEN loadOf[p] ELSE 0])

\* C5: when at least one page succeeded, the written overall summary has
\* totalPages equal to the number of pages whose analysis succeeded and
\* averageLoadTime equal to the mean of the load times of exactly those pages.
C5_SummaryCountsSuccessfulPages ==
    \A o \in overall :
        OkPages # {} =>
            /\ o.totalPages = Cardinality(OkPages)
            /\ o.averageLoadTime.kind = "num"
            /\ o.averageLoadTime.num * Cardinality(OkPages)
                 = o.averageLoadTime.den * OkLoadSum

\* Two of the four pages failed in a telemetry phase; the other two loaded in
\* 2000 ms and 4000 ms.
C5_Witness ==
    /\ overall # {}
    /\ firstFailure[2] = "telemetry" /\ firstFailure[4] = "telemetry"
    /\ OkPages = {1, 3}
    /\ loadOf[1] = 2000 /\ loadOf[3] = 4000
    /\ \A o \in overall : o.totalPages = 2

\* C6: when every page of the batch failed, the written overall summary reports
\* neither performanceScore nor averageLoadTime as a number (so neither 0 nor
\* any value in 0..100): both are the JSON null.
C6_AllFailedIsNoData ==
    \A o \in overall :
        OkPages = {} =>
            /\ o.performanceScore.kind = "null"
            /\ o.averageLoadTime.kind = "null"

\* The overall summary was written after all four pages failed.
C6_Witness ==
    /\ overall # {}
    /\ \A p \in PageIds : outcome[p] = "failed"

\* The deduction rules of the score, as (fires, penalty) pairs.
Rules(r) ==
    << <<r.loadTime > 3000, 20>>,
       <<r.loadTime > 5000, 30>>,
       <<r.bundleAnalysis.javascript.utilizationRate < 5000, 15>>,
       <<r.bundleAnalysis.css.utilizationRate < 6000, 10>>,
       <<"LCP" \in DOMAIN r.webVitals /\ r.webVitals["LCP"].value > 2500, 25>>,
       <<"FID" \in DOMAIN r.webVitals /\ r.webVitals["FID"].value > 100, 20>> >>

Penalty(rule) == IF rule[1] THEN rule[2] ELSE 0

Fired(rule) == IF rule[1] THEN 1 ELSE 0

Deductions(r) == SumSeq([i \in 1..Len(Rules(r)) |-> Penalty(Rules(r)[i])])

FiredCount(r) == SumSeq([i \in 1..Len(Rules(r)) |-> Fired(Rules(r)[i])])

\* C7: the page score is 100 minus the sum of the deductions that fire, clamped
\* to a minimum of 0, and lies in 0..100; the two worked examples give 65 and 5.
C7_PageScoreRule ==
    \A sc \in scoreOut :
        /\ sc = (IF Deductions(scoreIn) > 100 THEN 0 ELSE 100 - Deductions(scoreIn))
        /\ sc \in 0..100
        /\ scoreIn = ExampleA => sc = 65
        /\ scoreIn = ExampleB => sc = 5

\* The second worked example has been scored.
C7_Witness ==
    /\ scoreIn = ExampleB
    /\ scoreOut = {5}

ResultScoreSum == SumSeq([i \in 1..Len(results) |-> PageScore(results[i])])

\* C8: with at least one successful page, the written performanceScore is an
\* integer in 0..100, the nearest one to the mean of the page scores of the
\* results (a mean half-way between two integers goes up).
C8_AggregateIsRoundedMean ==
    \A o \in overall :
        Len(results) >= 1 =>
            /\ o.performanceScore.kind = "num"
            /\ o.performanceScore.den = 1
            /\ o.performanceScore.num \in 0..100
            /\ 2 * Len(results) * o.performanceScore.num - Len(results) <= 2 * ResultScoreSum
            /\ 2 * ResultScoreSum < 2 * Len(results) * o.performanceScore.num + Len(results)

\* Two pages scored 100 and 85: the mean 92.5 is reported as 93.
C8_Witness ==
    /\ Len(results) = 2
    /\ ResultScoreSum = 185
    /\ \E o \in overall : o.performanceScore.num = 93

Count(recs, msg) == Cardinality({i \in 1..Len(recs) : recs[i] = msg})

Warnings(recs) == Cardinality({i \in 1..Len(recs) : recs[i] # Great})

TooMany(r) == IF r.resourceMetrics.totalResources > 100 THEN 1 ELSE 0

\* C9 as stated: the number of warnings is the number of fired deductions, plus
\* one when the resource count exceeds 100, and the positive recommendation is
\* emitted exactly when no trigger fires.
C9_OneWarningPerDeduction ==
    recsOut # <<>> =>
        /\ Warnings(recsOut) = FiredCount(scoreIn) + TooMany(scoreIn)
        /\ Count(recsOut, Great) = (IF FiredCount(scoreIn) + TooMany(scoreIn) = 0 THEN 1 ELSE 0)

\* C9 as amended: each trigger emits its own message once, the two load-time
\* deductions sharing the one slow-loading message; the positive recommendation
\* is emitted, alone, exactly when no trigger fires.
C9_WarningsMatchTriggers ==
    recsOut # <<>> =>
        LET r == scoreIn
            one(b) == IF b THEN 1 ELSE 0
        IN  /\ Count(recsOut, "JavaScript utilization is low")
                 = one(r.bundleAnalysis.javascript.utilizationRate < 5000)
            /\ Count(recsOut, "CSS utilization is low")
                 = one(r.bundleAnalysis.css.utilizationRate < 6000)
            /\ Count(recsOut, "Slow loading time") = one(r.loadTime > 3000)
            /\ Count(recsOut, "Too many resources") = one(r.resourceMetrics.totalResources > 100)
            /\ Count(recsOut, "Poor LCP") = Fired(Rules(r)[5])
            /\ Count(recsOut, "Poor FID") = Fired(Rules(r)[6])
            /\ Warnings(recsOut)
                 = FiredCount(r) - one(r.loadTime > 5000) + TooMany(r)
            /\ Count(recsOut, Great) = one(FiredCount(r) + TooMany(r) = 0)
            /\ Len(recsOut) = Warnings(recsOut) + Count(recsOut, Great)

\* Recommendations were generated for a page that loaded in more than 5000 ms
\* and has more than 100 resources.
C9_Witness ==
    /\ recsOut # <<>>
    /\ scoreIn.loadTime > 5000
    /\ scoreIn.resourceMetrics.totalResources > 100
    /\ Count(recsOut, "Slow loading time") = 1
    /\ Count(recsOut, "Too many resources") = 1

(***************************************************************************)
(* analyzeBundleSize (the bundle harness).                                 *)
(***************************************************************************)
\* The two sides of a bundle analysis, each with the list it was computed from.
Sides(given, out) ==
    { [cov |-> given.js, stat |-> out.javascript], [cov |-> given.css, stat |-> out.css] }

\* The ranges of every entry lie inside the entry's text and do not overlap.
Disjoint(r1, r2) == r1.end <= r2.start \/ r2.end <= r1.start

WellFormedEntry(e) ==
    /\ \A i \in 1..Len(e.ranges) :
          0 <= e.ranges[i].start /\ e.ranges[i].start <= e.ranges[i].end
                                 /\ e.ranges[i].end <= e.text
    /\ \A i, j \in 1..Len(e.ranges) : i # j => Disjoint(e.ranges[i], e.ranges[j])

WellFormed(cov) == \A i \in 1..Len(cov) : WellFormedEntry(cov[i])

StatInBounds(stat) ==
    /\ stat.usedSize <= stat.totalSize
    /\ stat.unusedSize >= 0
    /\ 0 <= stat.utilizationRate
    /\ stat.utilizationRate <= 10000

\* C11 (as stated): for all coverage inputs, any list of entries each with a
\* text and a list of start/end ranges, both sides of the analysis have
\* usedSize <= totalSize, unusedSize >= 0 and a utilization within [0, 100].
C11_BoundsForAllInputs ==
    \A out \in bundleOut : \A side \in Sides(bundleIn, out) : StatInBounds(side.stat)

\* C11 (amended): for every side whose ranges lie inside their entry's text and
\* do not overlap, usedSize <= totalSize, unusedSize >= 0 and the utilization
\* is within [0, 100].
C11_BoundsForDisjointRanges ==
    \A out \in bundleOut : \A side \in Sides(bundleIn, out) :
        WellFormed(side.cov) => StatInBounds(side.stat)

\* A well-formed JavaScript list of two entries, the first with two ranges,
\* of which some but not all bytes are used.
C11_Witness ==
    \E out \in bundleOut :
        /\ WellFormed(bundleIn.js)
        /\ Len(bundleIn.js) = 2
        /\ Len(bundleIn.js[1].ranges) = 2
        /\ out.javascript.usedSize > 0
        /\ out.javascript.usedSize < out.javascript.totalSize

\* The sums of the claim, taken over the positions of a list.
RECURSIVE SumOver(_, _)
SumOver(f, S) ==
    IF S = {} THEN 0
    ELSE LET x == CHOOSE y \in S : TRUE IN f[x] + SumOver(f, S \ {x})

TextBytes(cov) == SumOver([i \in 1..Len(cov) |-> cov[i].text], 1..Len(cov))

UsedBytesOf(e) ==
    SumOver([k \in 1..Len(e.ranges) |-> e.ranges[k].end - e.ranges[k].start],
            1..Len(e.ranges))

UsedBytes(cov) == SumOver([i \in 1..Len(cov) |-> UsedBytesOf(cov[i])], 1..Len(cov))

\* rate, in hundredths of a percent, is a nearest hundredth of used/total*100.
NearestHundredth(rate, used, total) ==
    /\ 2 * (rate * total - 10000 * used) <= total
    /\ 2 * (10000 * used - rate * total) <= total

\* C12: each side has totalSize = the sum of the text lengths, usedSize = the
\* sum of end - start over all ranges, unusedSize = totalSize - usedSize and a
\* utilization of used/total*100 rounded to two decimals, which is 0 when
\* totalSize is 0; and neither side depends on the other side's list.
C12_BundleFigures ==
    \A out \in bundleOut :
        /\ \A side \in Sides(bundleIn, out) :
              /\ side.stat.totalSize = TextBytes(side.cov)
              /\ side.stat.usedSize = UsedBytes(side.cov)
              /\ side.stat.unusedSize = TextBytes(side.cov) - UsedBytes(side.cov)
              /\ TextBytes(side.cov) = 0 => side.stat.utilizationRate = 0
              /\ TextBytes(side.cov) > 0 =>
                    NearestHundredth(side.stat.utilizationRate, UsedBytes(side.cov),
                                     TextBytes(side.cov))
        /\ \A other \in ProbeLists :
              /\ analyzeBundleSize(bundleIn.js, other).javascript = out.javascript
              /\ analyzeBundleSize(other, bundleIn.css).css = out.css

\* Two thirds of three JavaScript bytes are used (66.67), and the CSS list is
\* empty: its utilization is 0 without a division.
C12_Witness ==
    \E out \in bundleOut :
        /\ out.javascript.totalSize = 3
        /\ out.javascript.usedSize = 2
        /\ out.javascript.utilizationRate = 6667
        /\ bundleIn.css = <<>>
        /\ out.css.utilizationRate = 0

(***************************************************************************)
(* runFullAnalysis and the CLI entry point (the batch).                    *)
(***************************************************************************)
\* The positions inside an analyzePage call at which its browser is live.
InAnalysis == pc \in {Steps[i] : i \in 1..Len(Steps)} \cup {"finally"}

\* C13: the pages are analyzed one after the other in the configured order,
\* each with a browser of its own: a page is started only when every page
\* before it has settled, no page is analyzed twice, at most one browser is
\* live at any moment, a live browser belongs to the one analysis in progress,
\* and none is live when the next one is about to be launched.
C13_SequentialOneBrowserPerPage ==
    /\ browsers \in {0, 1}
    /\ pc = "launch" => browsers = 0
    /\ browsers = 1 => InAnalysis /\ attempts[idx] = 1 /\ outcome[idx] = "none"
    /\ \A p \in PageIds :
          /\ attempts[p] <= 1
          /\ attempts[p] = 1 => \A q \in 1..(p - 1) : attempts[q] = 1 /\ outcome[q] # "none"
          /\ outcome[p] # "none" => attempts[p] = 1

\* The browser of the fourth page is live after a first page that succeeded
\* and a second page that failed.
C13_Witness ==
    /\ idx = 4
    /\ browsers = 1
    /\ outcome[1] = "ok"
    /\ outcome[2] = "failed"
    /\ outcome[3] # "none"

\* C18: the process exits with 0 exactly when runFullAnalysis resolved, that
\* is when the overall summary was written, whatever the outcomes of the pages;
\* it exits with 1 only when the batch driver threw, which it does only at the
\* aggregate write after all four pages were attempted.
C18_ExitCodeIgnoresPageFailures ==
    /\ exitCode \in {{}, {0}, {1}}
    /\ pc = "exited" <=> exitCode # {}
    /\ exitCode = {0} <=> (pc = "exited" /\ overall # {})
    /\ exitCode = {1} => overall = {} /\ \A p \in PageIds : attempts[p] = 1
    /\ pc = "resolved" => overall # {}
    /\ pc = "rejected" => overall = {}

\* All four pages failed and the process exited with 0.
C18_Witness ==
    /\ pc = "exited"
    /\ exitCode = {0}
    /\ \A p \in PageIds : outcome[p] = "failed"

(***************************************************************************)
(* getResourceMetrics and getResourceType (the resource harnesses).        *)
(***************************************************************************)
Categories == {"scripts", "stylesheets", "images", "fonts", "other"}

\* The size the claim gives an entry: transferSize if non-zero, else
\* encodedBodySize if non-zero, else 0.
SizeOf(r) ==
    IF r.transferSize # 0 THEN r.transferSize
    ELSE IF r.encodedBodySize # 0 THEN r.encodedBodySize
    ELSE 0

\* The names filed under a category, over all positions of its list.
Filed(value, c) == { <<k, value.byType[c][k]>> : k \in 1..Len(value.byType[c]) }

\* C14 (as stated): for a buffer of n >= 0 entries getResourceMetrics completes
\* and returns totalResources = n, every entry in exactly one of the five
\* categories, and totalSize = the sum of the sizes of the entries.
C14_ResourceSummaryForEveryBuffer ==
    \A out \in resOut :
        /\ out.settled = "returned"
        /\ out.value.totalResources = Len(resIn)
        /\ out.value.totalSize = SumOver([i \in 1..Len(resIn) |-> SizeOf(resIn[i])],
                                         1..Len(resIn))
        /\ SumOver([c \in Categories |-> Len(out.value.byType[c])], Categories) = Len(resIn)
        /\ \A i \in 1..Len(resIn) :
              \E c \in Categories : \E f \in Filed(out.value, c) :
                  f[2].name = resIn[i].name

\* The part of a URL after its last dot; the whole URL when it has no dot.
RECURSIVE AfterLastDot(_)
AfterLastDot(url) ==
    IF url = <<>> THEN <<>>
    ELSE IF url[Len(url)] = "." THEN <<>>
    ELSE Append(AfterLastDot(SubSeq(url, 1, Len(url) - 1)), url[Len(url)])

HasDot(url) == \E i \in 1..Len(url) : url[i] = "."

\* The category the claim gives a URL: that of the extension at its end.
CategoryOf(url) ==
    LET ext == AfterLastDot(url)
    IN  IF ~HasDot(url) THEN "other"
        ELSE IF ext \in ScriptExts THEN "scripts"
        ELSE IF ext \in StyleExts THEN "stylesheets"
        ELSE IF ext \in ImageExts THEN "images"
        ELSE IF ext \in FontExts THEN "fonts"
        ELSE "other"

\* C15: getResourceType gives every URL exactly one of the five categories,
\* the one of the extension at the very end of the URL: a URL that ends in
\* .woff2 is a font, one that ends in .module.css a stylesheet, and a URL whose
\* end matches no pattern, a recognized extension followed by a query string
\* or a fragment included, is other.
C15_CategoryByTrailingExtension ==
    \A type \in typeOut :
        /\ type \in Categories
        /\ type = CategoryOf(urlIn)
        /\ EndsWith(urlIn, <<".", "w", "o", "f", "f", "2">>) => type = "fonts"
        /\ EndsWith(urlIn, <<".", "m", ".", "c", "s", "s">>) => type = "stylesheets"
        /\ (\E ext \in ScriptExts \cup StyleExts \cup ImageExts \cup FontExts :
               \E tail \in {<<"?", "v">>, <<"#", "x">>} :
                   EndsWith(urlIn, <<".">> \o ext \o tail)) => type = "other"

\* A script URL with a query string is classified as other.
C15_Witness ==
    /\ urlIn = <<"a", ".", "j", "s", "?", "v">>
    /\ typeOut = {"other"}

Min(a, b) == IF a < b THEN a ELSE b

\* C16 (as stated): for a buffer of n entries the slowestResources list that
\* getResourceMetrics returns has min(5, n) elements, is sorted by duration in
\* descending order, and leaves out no entry slower than one it includes.
C16_SlowestResourcesForEveryBuffer ==
    \A out \in resOut :
        /\ out.settled = "returned"
        /\ Len(out.value.slowestResources) = Min(5, Len(resIn))
        /\ \A i, j \in 1..Len(out.value.slowestResources) :
              i < j => out.value.slowestResources[i].duration >=
                       out.value.slowestResources[j].duration
        /\ \A i \in 1..Len(resIn) : \A j \in 1..Len(out.value.slowestResources) :
              resIn[i].duration > out.value.slowestResources[j].duration =>
                  \E k \in 1..Len(out.value.slowestResources) :
                      out.value.slowestResources[k].name = resIn[i].name

(***************************************************************************)
(* The report files (the write harness).                                   *)
(***************************************************************************)
\* No writeFileSync call is in progress.
NoWriteInProgress == pc \notin {WriteAt[kind] : kind \in FileKinds}

\* C17 (as stated): report writing is all-or-nothing per file: once a write of
\* the raw file, the summary or the aggregate has failed, the file is absent,
\* unchanged or complete, never partial, and a summary or aggregate that was
\* there before has not lost its complete content.
C17_WritesAllOrNothing ==
    NoWriteInProgress => \A f \in Files : disk[f] # "partial"

(***************************************************************************)
(* The order and the waits of analyzePage (the batch).                     *)
(***************************************************************************)
Completed == { done[i] : i \in 1..Len(done) }

PositionOf(step) == CHOOSE i \in 1..Len(done) : done[i] = step

\* C19 (as stated): cache disabling, viewport setup and the start of the
\* JavaScript and CSS coverage have completed when navigation begins; both
\* coverages are stopped right after the vitals capture, so they are stopped
\* when any other collector (resources, heap metrics) begins.
C19_CoverageStoppedRightAfterVitals ==
    /\ pc = "goto" =>
          {"setCacheEnabled", "setViewport", "startJSCoverage", "startCSSCoverage"}
              \subseteq Completed
    /\ pc \in {"getResourceMetrics", "getLighthouseMetrics"} =>
          {"stopJSCoverage", "stopCSSCoverage"} \subseteq Completed
    /\ "stopJSCoverage" \in Completed =>
          /\ PositionOf("stopJSCoverage") > 1
          /\ done[PositionOf("stopJSCoverage") - 1] = "getWebVitals"

\* C20 (as stated): no wait on the browser lasts forever, so until the process
\* has exited there is always a next step for the batch to take.
C20_BatchNeverStuck ==
    pc = "exited" \/ ENABLED NextHang

(***************************************************************************)
(* The error of a failed page and the files of a batch (the batch).        *)
(***************************************************************************)
\* C21 (as stated): when a step of the try block throws, the steps after it
\* are skipped, and the error analyzePage rejects with, which the catch block
\* of the batch logs, is the error of that step, also when browser.close()
\* then throws as well.
C21_FirstErrorIsPropagated ==
    /\ pending # "none" => pc \in {"finally", "catch"} /\ pending \notin Completed
    /\ (pc = "catch" /\ pending # "none") => error = pending

\* The pages the aggregate counts.
PagesInResults == {p \in PageIds : InResults(p)}

\* C23 (as stated): when the batch has left its loop, the pages in the results
\* list are exactly the pages whose raw JSON file was written in this run.
C23_ResultsAreTheRawFiles ==
    LoopOver => PagesInResults = rawFiles

(***************************************************************************)
(* getWebVitals (the vitals harness).                                      *)
(***************************************************************************)
\* The positions of the samples of a name that the page reports before the
\* timer fires.
InWindow(name) ==
    { i \in 1..Len(vitalsIn.samples) :
        vitalsIn.samples[i].name = name /\ ~vitalsIn.samples[i].late }

Latest(S) == CHOOSE i \in S : \A j \in S : j <= i

TheNavigation == CHOOSE n \in vitalsIn.navigation : TRUE

====
